---------------------------- MODULE Spec2Model ----------------------------
(***************************************************************************)
(* Model of the pix micro-benchmark programs:                              *)
(*   - the IR measurement loops (ir-perf templates and bench-driver.c),    *)
(*   - the two command-line drivers of the API benchmarks,                 *)
(*   - the generated API benchmark processes (template + snippets) run     *)
(*     against an asynchronous device queue.                               *)
(* Three specifications share the module: SpecIR, SpecArgs and Spec.       *)
(***************************************************************************)
EXTENDS Integers, Sequences, FiniteSets, TLC

VARIABLES
    \* ---- IR benchmark (bench-driver.c + templates/*.ll)
    irTemplate,     \* which template's bench_loop is linked
    irArg,          \* argv[1] of the IR executable, or NoArg
    irPc,           \* "idle" | "main" | "loop" | "exit" | "returned"
    irN,            \* the i64 %N handed to bench_loop
    iv,             \* the loop induction variable (%iv / %i) at the loop head
    execCount,      \* how many times the measured snippet has executed
    sunk,           \* TRUE once sink() has been called
    irOut,          \* lines the IR benchmark executable wrote to stdout
    \* ---- command-line drivers (parse_command_line_args)
    driver,         \* "flags" (benchmark_driver.c) | "params" (get_benchmark_param driver)
    argv,           \* argument vector, argv[1] is C's argv[0]
    argPc,          \* "idle" | "parse" | "parsed"
    eal_argv,       \* the vector handed to rte_eal_init
    benchIdx,       \* C indices of the arguments interpreted as benchmark parameters
    g_burst_size, g_iterations, g_payload_size,
    g_params,       \* sequence of [key, value] records (g_params[0..g_param_count-1])
    \* ---- one generated API benchmark process (template + snippets) and its device
    bench,          \* which generated program runs
    devCount,       \* devices of the targeted class present (rte_*dev_count())
    pc,             \* position in main()
    status,         \* "running" | "exit0" | "failure" | "crash"
    errmsg,         \* message given to rte_exit
    out,            \* lines printed on stdout, in order
    loop_i,         \* loop counter i of run_benchmark
    burst_size,
    now,            \* the cycle counter (rte_rdtsc)
    start,          \* run_benchmark's start
    total_poll_cycles,
    poll_start, poll_end,
    enqueued, total_dequeued,     \* locals of the call snippet
    in_flight_ops,
    vdev_initialized,
    devInflight,    \* operations accepted by the device and not yet completed
    devDone,        \* operations completed and waiting to be dequeued
    \* ---- history of the run, kept for the properties
    sumEnqueued, sumDequeued,     \* operations enqueued / dequeued over the run
    lastEnqueued,                 \* what the last enqueue call accepted
    zeroCycles,     \* cycles of the dequeue attempts that returned nothing
    succCycles,     \* cycles of the polling attempts that returned completions
    pauseCycles,    \* cycles of the template's rte_pause section
    creationFailed, \* a device/pool/session/transform creation call has failed
    algorithm, checksum,          \* the compress snippets' static strings
    comp_xform,     \* the transform given to rte_compressdev_private_xform_create
    printed,        \* [endv, startv, poll] at the time "Total cycles" was printed
    \* ---- the patched ixgbe driver functions and the NIC registers they touch
    ixFn,           \* the driver function that runs
    ixPc,           \* index of its next step
    RXCTRL, FCTRL, TXDCTL,        \* registers, as the sets of their bits that are set
    TDH, TDT,       \* head and tail registers of the transmit queue
    rxctrl, fctrl, txdctl,        \* the functions' locals
    promiscuous, all_multicast,   \* dev->data flags
    tx_queue_state,
    ixLog,          \* register writes and barriers so far, in program order
    \* ---- the waiting loops of the snippets, taken on their own
    waitLoop,       \* which loop runs
    completed,      \* local of the decrypt setup's drain loop
    \* ---- the setup snippets: parameters, arrays, mbuf pool, buffer contents
    setupKind,      \* whose setup.c runs
    setupPc,        \* position in it
    data_size, pkt_size,
    data_room_size, \* what rte_pktmbuf_pool_create received
    topIndex,       \* highest index used on ops/mbufs/dst_mbufs/ivs/bufs, -1 if none
    bytesWritten    \* bytes of one mbuf's data area, from its start, that are written

irVars  == <<irTemplate, irArg, irPc, irN, iv, execCount, sunk, irOut>>
argVars == <<driver, argv, argPc, eal_argv, benchIdx,
             g_burst_size, g_iterations, g_payload_size, g_params>>
procVars == <<bench, devCount, pc, status, errmsg, out, loop_i,
              burst_size, now, start, total_poll_cycles, poll_start, poll_end,
              enqueued, total_dequeued, in_flight_ops, vdev_initialized,
              devInflight, devDone, sumEnqueued, sumDequeued, lastEnqueued,
              zeroCycles, succCycles, pauseCycles, creationFailed, printed,
              algorithm, checksum, comp_xform>>
ixVars  == <<ixFn, ixPc, RXCTRL, FCTRL, TXDCTL, TDH, TDT, rxctrl, fctrl, txdctl,
             promiscuous, all_multicast, tx_queue_state, ixLog>>
waitVars == <<waitLoop, completed>>
setupVars == <<setupKind, setupPc, data_size, pkt_size, data_room_size, topIndex,
               bytesWritten>>
auxVars == <<ixVars, waitVars, setupVars>>
vars    == <<irVars, argVars, procVars, auxVars>>

-----------------------------------------------------------------------------
(* Bounds of the model *)
MaxLoopSteps == 6       \* cap on iterations explored of one bench_loop call
MaxArgs      == 3       \* arguments after the program name

-----------------------------------------------------------------------------
(* Characters, strings as sequences of characters, C string functions *)

Digits == {"0", "1", "2", "3", "4", "5", "6", "7", "8", "9"}

DigitVal(c) ==
    CASE c = "0" -> 0 [] c = "1" -> 1 [] c = "2" -> 2 [] c = "3" -> 3
      [] c = "4" -> 4 [] c = "5" -> 5 [] c = "6" -> 6 [] c = "7" -> 7
      [] c = "8" -> 8 [] c = "9" -> 9

\* strcmp(a, b) == 0
StrEq(a, b) == a = b

\* strncmp(a, b, n) == 0 for a NUL-terminated a and b
StrNEq(a, b, n) ==
    LET la == IF Len(a) < n THEN Len(a) ELSE n
        lb == IF Len(b) < n THEN Len(b) ELSE n
    IN  /\ la = lb
        /\ SubSeq(a, 1, la) = SubSeq(b, 1, lb)

\* value of the longest prefix of decimal digits of s starting at position p
RECURSIVE DigitsFrom(_, _, _)
DigitsFrom(s, p, acc) ==
    IF p > Len(s) \/ s[p] \notin Digits THEN acc
    ELSE DigitsFrom(s, p + 1, acc * 10 + DigitVal(s[p]))

UIntModulus  == 1048576    \* width of unsigned int arithmetic, scaled down from 2^32
ULongModulus == 16777216   \* width of unsigned long (long long), scaled down from 2^64

\* the digits of strtoul's subject: the value of the longest run of digits from
\* position p, ULONG_MAX once it no longer fits
RECURSIVE ULDigitsFrom(_, _, _)
ULDigitsFrom(s, p, acc) ==
    IF p > Len(s) \/ s[p] \notin Digits THEN acc
    ELSE IF acc * 10 + DigitVal(s[p]) >= ULongModulus THEN ULongModulus - 1
    ELSE ULDigitsFrom(s, p + 1, acc * 10 + DigitVal(s[p]))

\* strtoul(s, NULL, 10) and strtoull(s, NULL, 10) for a string without leading
\* white space: an optional sign, then the longest run of digits; 0 when there is
\* no digit to convert; the value is negated in the unsigned type after a '-'
StrToUL(s) ==
    IF Len(s) > 0 /\ s[1] = "+" THEN ULDigitsFrom(s, 2, 0)
    ELSE IF Len(s) > 0 /\ s[1] = "-"
         THEN (ULongModulus - ULDigitsFrom(s, 2, 0)) % ULongModulus
    ELSE ULDigitsFrom(s, 1, 0)

\* (unsigned int)strtoul(s, NULL, 10)
StrToUInt(s) == StrToUL(s) % UIntModulus

\* atol(s): optional sign, then the longest run of digits
Atol(s) ==
    IF Len(s) > 0 /\ s[1] = "-" THEN 0 - DigitsFrom(s, 2, 0)
    ELSE IF Len(s) > 0 /\ s[1] = "+" THEN DigitsFrom(s, 2, 0)
    ELSE DigitsFrom(s, 1, 0)

NoArg == <<>>

-----------------------------------------------------------------------------
(* IR benchmarks: bench-driver.c main and the templates' bench_loop *)

DefaultN == 100000000

\* the loop-control shapes of the templates
\*   "arithmetic", "memory", "phi" : %cmp = icmp slt %iv, %N ; br %cmp, loop, exit
\*   "fp-arithmetic"               : %done = icmp eq %next_i, %N ; br %done, exit, loop
\*   "conversion"                  : %done = icmp eq %next_i, %N ; br %done, loop, exit
IrTemplates == {"arithmetic", "memory", "phi", "fp-arithmetic", "conversion"}

IrArgs == {NoArg, <<"0">>, <<"1">>, <<"2">>, <<"3">>, <<"4">>, <<"-", "1">>, <<"x">>}

\* main with the default of bench-driver-alloca.c in place of 100000000LL
MainN_alloca_default(arg) == IF arg = NoArg THEN 1000 ELSE Atol(arg)

\* long N = (argc>1 ? atol(argv[1]) : 100000000LL)
MainN(arg) == IF arg = NoArg THEN DefaultN ELSE Atol(arg)

\* does the back edge of the loop get taken after an iteration that started with
\* induction value i ?
LoopAgain(t, i, n) ==
    CASE t \in {"arithmetic", "memory", "phi"} -> i < n
      [] t = "fp-arithmetic"                   -> ~(i + 1 = n)
      [] t = "conversion"                      -> (i + 1 = n)

InitIR ==
    /\ irTemplate \in IrTemplates
    /\ irArg \in IrArgs
    /\ irPc = "main"
    /\ irN = 0
    /\ iv = 0
    /\ execCount = 0
    /\ sunk = FALSE
    /\ irOut = <<>>

\* main: pick N and call bench_loop (entry block branches to loop with iv = 0)
ir_main ==
    /\ irPc = "main"
    /\ irN' = MainN(irArg)
    /\ iv' = 0
    /\ execCount' = 0
    /\ irPc' = "loop"
    /\ UNCHANGED <<irTemplate, irArg, sunk, irOut>>

\* one pass through the loop block: the snippet, the increment, the branch
bench_loop_iteration ==
    /\ irPc = "loop"
    /\ execCount < MaxLoopSteps
       \/ (irN > MaxLoopSteps /\ iv >= irN - 1 /\ iv <= irN)
    /\ execCount' = execCount + 1
    /\ iv' = iv + 1
    /\ irPc' = IF LoopAgain(irTemplate, iv, irN) THEN "loop" ELSE "exit"
    /\ UNCHANGED <<irTemplate, irArg, irN, sunk, irOut>>

\* the passes through the loop block that start with induction values iv .. N-2,
\* taken together: in each of them the back edge is taken (the comparisons are
\* monotone in iv, so the last pass decides for all)
bench_loop_passes ==
    /\ irPc = "loop"
    /\ irN - 1 - iv > MaxLoopSteps
    /\ \A i \in {iv, irN - 2} : LoopAgain(irTemplate, i, irN)
    /\ execCount' = execCount + (irN - 1 - iv)
    /\ iv' = irN - 1
    /\ UNCHANGED <<irTemplate, irArg, irN, irPc, sunk, irOut>>

\* exit block: call sink, ret
bench_loop_exit ==
    /\ irPc = "exit"
    /\ sunk' = TRUE
    /\ irPc' = "returned"
    /\ UNCHANGED <<irTemplate, irArg, irN, iv, execCount, irOut>>

-----------------------------------------------------------------------------
(* Command-line drivers: parse_command_line_args *)

DefaultBurstSize   == 32
DefaultIterations  == 1000000
DefaultPayloadSize == 64
MaxBurstSize       == 65535
MinPayloadSize     == 8
MAX_PARAMS         == 16
KeyCapacity        == 32      \* char key[32]
ValueCapacity      == 128     \* char value[128]

ProgName  == <<"e", "x", "e">>
Separator == <<"-", "-">>

\* the words an argument vector is drawn from
\* UIntModulus + 1, in decimal
OverUInt == <<"1", "0", "4", "8", "5", "7", "7">>

Tokens == { Separator, <<"-", "b">>, <<"-", "i">>, <<"-", "p">>, <<"-", "l">>,
            <<"-", "-", "k">>, <<"8">>, <<"0">>, <<"-", "1">>, OverUInt }

RECURSIVE SeqsUpTo(_, _)
SeqsUpTo(S, n) ==
    IF n = 0 THEN {<<>>}
    ELSE LET shorter == SeqsUpTo(S, n - 1)
         IN  shorter \cup {Append(q, t) : q \in {r \in shorter : Len(r) = n - 1}, t \in S}

\* a key that does not fit char key[32], and one pair more than g_params holds
LongKey   == [j \in 1 .. KeyCapacity |-> "k"]
ManyPairs == [j \in 1 .. 2 * MAX_PARAMS |-> IF j % 2 = 1 THEN <<"-", "-", "k">> ELSE <<"8">>]
                 \o << <<"-", "-", "j">>, <<"0">> >>

ArgVectors ==
    {<<ProgName>> \o rest : rest \in SeqsUpTo(Tokens, MaxArgs)}
        \cup {<<ProgName, Separator, <<"-", "-">> \o LongKey, <<"8">>>>,
              <<ProgName, Separator>> \o ManyPairs}

\* C's argv[i] and argc of an argument vector
Arg(av, i) == av[i + 1]
Argc(av)   == Len(av)

\* for (i = 1; i < argc; i++) if (strcmp(argv[i], "--") == 0) { separator_index = i; break; }
RECURSIVE FindSeparator(_, _)
FindSeparator(av, i) ==
    IF i >= Argc(av) THEN -1
    ELSE IF StrEq(Arg(av, i), Separator) THEN i
    ELSE FindSeparator(av, i + 1)

separator_index(av) == FindSeparator(av, 1)

\* strncpy(dst, src, cap - 1) into a zeroed buffer
StrNCpy(src, cap) == SubSeq(src, 1, IF Len(src) < cap - 1 THEN Len(src) ELSE cap - 1)

\* the parsing loop of benchmark_driver.c (flags -b, -i, -p before the separator)
RECURSIVE FlagsLoop(_, _, _, _)
FlagsLoop(av, i, last, st) ==
    IF i >= last THEN st
    ELSE IF StrEq(Arg(av, i), <<"-", "b">>) /\ i + 1 < last THEN
        LET v == StrToUInt(Arg(av, i + 1))
        IN  FlagsLoop(av, i + 2, last,
                [st EXCEPT !.burst = IF v = 0 \/ v > MaxBurstSize THEN DefaultBurstSize ELSE v,
                           !.idx = @ \cup {i, i + 1}])
    ELSE IF StrEq(Arg(av, i), <<"-", "i">>) /\ i + 1 < last THEN
        LET v == StrToUL(Arg(av, i + 1))
        IN  FlagsLoop(av, i + 2, last,
                [st EXCEPT !.iters = IF v = 0 THEN DefaultIterations ELSE v,
                           !.idx = @ \cup {i, i + 1}])
    ELSE IF StrEq(Arg(av, i), <<"-", "p">>) /\ i + 1 < last THEN
        LET v == StrToUInt(Arg(av, i + 1))
        IN  FlagsLoop(av, i + 2, last,
                [st EXCEPT !.payload = IF v < MinPayloadSize THEN DefaultPayloadSize ELSE v,
                           !.idx = @ \cup {i, i + 1}])
    ELSE FlagsLoop(av, i + 1, last, st)

\* the parsing loop of the get_benchmark_param driver (--key value and -i after
\* the separator)
RECURSIVE ParamsLoop(_, _, _)
ParamsLoop(av, i, st) ==
    IF i >= Argc(av) THEN st
    ELSE IF StrNEq(Arg(av, i), Separator, 2) /\ i + 1 < Argc(av) THEN
        LET key   == SubSeq(Arg(av, i), 3, Len(Arg(av, i)))
            value == Arg(av, i + 1)
            st1   == IF Len(st.params) < MAX_PARAMS
                     THEN [st EXCEPT !.params = Append(@,
                               [key |-> StrNCpy(key, KeyCapacity),
                                value |-> StrNCpy(value, ValueCapacity)])]
                     ELSE st
        IN  ParamsLoop(av, i + 2, [st1 EXCEPT !.idx = @ \cup {i, i + 1}])
    ELSE IF StrEq(Arg(av, i), <<"-", "i">>) /\ i + 1 < Argc(av) THEN
        LET v == StrToUL(Arg(av, i + 1))
        IN  ParamsLoop(av, i + 2,
                [st EXCEPT !.iters = IF v = 0 THEN DefaultIterations ELSE v,
                           !.idx = @ \cup {i, i + 1}])
    ELSE ParamsLoop(av, i + 1, st)

\* const char *get_benchmark_param(const char *key): the first match, else NULL
NULL == <<"(null)">>
RECURSIVE ParamLookup(_, _, _)
ParamLookup(params, key, i) ==
    IF i > Len(params) THEN NULL
    ELSE IF StrEq(params[i].key, key) THEN params[i].value
    ELSE ParamLookup(params, key, i + 1)

get_benchmark_param(params, key) == ParamLookup(params, key, 1)

ParseState0 ==
    [burst |-> g_burst_size, iters |-> g_iterations, payload |-> g_payload_size,
     params |-> g_params, idx |-> {}]

\* benchmark_driver.c: parse_command_line_args, flags before "--", EAL after it
parse_flags ==
    /\ argPc = "parse"
    /\ driver = "flags"
    /\ LET sep  == separator_index(argv)
           last == IF sep > 0 THEN sep ELSE Argc(argv)
           st   == FlagsLoop(argv, 1, last, ParseState0)
       IN  /\ g_burst_size' = st.burst
           /\ g_iterations' = st.iters
           /\ g_payload_size' = st.payload
           /\ benchIdx' = st.idx
           /\ eal_argv' = IF sep > 0 THEN SubSeq(argv, sep + 2, Len(argv)) ELSE argv
    /\ \E ret \in {0, -1} : argPc' = IF ret < 0 THEN "eal_failed" ELSE "parsed"
    /\ UNCHANGED <<driver, argv, g_params>>

\* get_benchmark_param driver: parse_command_line_args, EAL before "--",
\* benchmark parameters after it
parse_params ==
    /\ argPc = "parse"
    /\ driver = "params"
    /\ LET sep   == separator_index(argv)
           bench_start == IF sep >= 0 THEN sep + 1 ELSE Argc(argv)
           st    == ParamsLoop(argv, bench_start, ParseState0)
           dpdk_argc == IF sep >= 0 THEN sep ELSE Argc(argv)
       IN  /\ g_iterations' = st.iters
           /\ g_params' = st.params
           /\ benchIdx' = st.idx
           /\ eal_argv' = SubSeq(argv, 1, dpdk_argc)
    /\ \E ret \in {0, -1} : argPc' = IF ret < 0 THEN "eal_failed" ELSE "parsed"
    /\ UNCHANGED <<driver, argv, g_burst_size, g_payload_size>>

InitArgs ==
    /\ driver \in {"flags", "params"}
    /\ argv \in ArgVectors
    /\ argPc = "parse"
    /\ eal_argv = <<>>
    /\ benchIdx = {}
    /\ g_burst_size = DefaultBurstSize
    /\ g_iterations = DefaultIterations
    /\ g_payload_size = DefaultPayloadSize
    /\ g_params = <<>>

-----------------------------------------------------------------------------
(* Generated API benchmark processes *)

\* template and snippets of each generated program
\*   crypto_encrypt       cryptodev template + enqueue/dequeue once, no tracking
\*   crypto_track         cryptodev template + in_flight_ops tracking, cleanup, teardown check
\*   crypto_poll          cryptodev template + polling call snippet (break on first result)
\*   compress_poll        compressdev template + polling call snippet (poll until all)
\*   session_create_free  cryptodev template + session create/free call snippet
\*   xform_create_free    compressdev template + private xform create/free call snippet
\*   rx_burst             ethdev template (Cycles per call) + rx_burst call snippet
\*   alloc_bulk           ethdev template (Total cycles) + alloc_bulk call snippet
Kinds == {"crypto_encrypt", "crypto_track", "crypto_poll", "compress_poll",
          "session_create_free", "xform_create_free", "rx_burst", "alloc_bulk"}

Template(b) ==
    CASE b \in {"crypto_encrypt", "crypto_track", "crypto_poll", "session_create_free"}
            -> "cryptodev"
      [] b \in {"compress_poll", "xform_create_free"} -> "compressdev"
      [] b \in {"rx_burst", "alloc_bulk"} -> "ethdev"

DriverOf(b) == IF b = "rx_burst" THEN "flags" ELSE "params"

UsesQueue(b) == b \in {"crypto_encrypt", "crypto_track", "crypto_poll", "compress_poll"}
Polls(b)     == b \in {"crypto_poll", "compress_poll"}

\* bounds of the explored runs
MaxIterations    == 2     \* iterations of the measurement loop that are explored
MaxTsc           == 7     \* the cycle counter is explored up to this value
MaxAttemptCycles == 2     \* cycles one dequeue attempt may take
MaxPauseCycles   == 1     \* cycles the rte_pause section may take
CallCycles       == 1     \* cycles of an enqueue or of another measured call
CycleModulus     == 1048576   \* width of the cycle arithmetic, scaled down from 2^64

NbDescriptors    == 128   \* queue pair size configured by the templates
CleanupBurst     == 256   \* cleanup_ops[256]

\* uint64_t a - b
U64Sub(a, b) == (a - b) % CycleModulus

Min(a, b) == IF a < b THEN a ELSE b

BurstSizeKey == <<"b", "u", "r", "s", "t", "_", "s", "i", "z", "e">>

\* burst_size_str ? (unsigned int)strtoul(burst_size_str, NULL, 10) : 32
BurstSizeParam(params) ==
    LET burst_size_str == get_benchmark_param(params, BurstSizeKey)
    IN  IF burst_size_str # NULL THEN StrToUInt(burst_size_str) ELSE DefaultBurstSize

AlgorithmKey == <<"a", "l", "g", "o", "r", "i", "t", "h", "m">>
ChecksumKey  == <<"c", "h", "e", "c", "k", "s", "u", "m">>
Deflate  == <<"d", "e", "f", "l", "a", "t", "e">>
Lz4      == <<"l", "z", "4">>
NullAlgo == <<"n", "u", "l", "l">>
Zstd     == <<"z", "s", "t", "d">>
NoneSum  == <<"n", "o", "n", "e">>
Crc32    == <<"c", "r", "c", "3", "2">>
Adler32  == <<"a", "d", "l", "e", "r", "3", "2">>
XxHash32 == <<"x", "x", "h", "a", "s", "h", "3", "2">>
Md5      == <<"m", "d", "5">>

\* struct rte_comp_xform comp_xform = { .type = RTE_COMP_COMPRESS }
NoXform == [algo |-> "RTE_COMP_ALGO_UNSPECIFIED", chksum |-> "RTE_COMP_CHECKSUM_NONE"]

\* algorithm = algorithm_str ? algorithm_str : "deflate"
AlgorithmParam(params) ==
    LET algorithm_str == get_benchmark_param(params, AlgorithmKey)
    IN  IF algorithm_str # NULL THEN algorithm_str ELSE Deflate

\* checksum = checksum_str ? checksum_str : "none"
ChecksumParam(params) ==
    LET checksum_str == get_benchmark_param(params, ChecksumKey)
    IN  IF checksum_str # NULL THEN checksum_str ELSE NoneSum

\* the strcmp chain that sets comp_xform.compress.algo; any other string is fatal
SupportedAlgorithm(alg) ==
    StrEq(alg, Deflate) \/ StrEq(alg, Lz4) \/ StrEq(alg, NullAlgo)

XformAlgo(alg) ==
    IF StrEq(alg, Deflate) THEN "RTE_COMP_ALGO_DEFLATE"
    ELSE IF StrEq(alg, Lz4) THEN "RTE_COMP_ALGO_LZ4"
    ELSE IF StrEq(alg, NullAlgo) THEN "RTE_COMP_ALGO_NULL"
    ELSE "RTE_COMP_ALGO_UNSPECIFIED"

\* the strcmp chain that sets comp_xform.compress.chksum; its else branch is NONE
XformChecksum(chk) ==
    IF StrEq(chk, Crc32) THEN "RTE_COMP_CHECKSUM_CRC32"
    ELSE IF StrEq(chk, Adler32) THEN "RTE_COMP_CHECKSUM_ADLER32"
    ELSE IF StrEq(chk, XxHash32) THEN "RTE_COMP_CHECKSUM_XXHASH32"
    ELSE "RTE_COMP_CHECKSUM_NONE"

\* command lines the processes are started with: an iteration count and, except
\* where the default burst size is explored, a burst size
ProcArgVectors(b) ==
    LET iters  == {<<"1">>, <<"2">>}
        bursts == IF Polls(b) THEN {<<"1">>, <<"2">>} ELSE {NoArg, <<"1">>, <<"2">>}
    IN  IF DriverOf(b) = "flags"
        THEN { <<ProgName, <<"-", "i">>, n>>
                 \o (IF v = NoArg THEN <<>> ELSE << <<"-", "b">>, v >>)
                 \o <<Separator, <<"-", "l">>>> : n \in iters, v \in bursts }
        ELSE { <<ProgName, <<"-", "l">>, Separator, <<"-", "i">>, n>>
                 \o (IF v = NoArg THEN <<>> ELSE << <<"-", "-">> \o BurstSizeKey, v >>) :
                 n \in iters, v \in bursts }
             \cup
             (IF b = "compress_poll"
              THEN { <<ProgName, <<"-", "l">>, Separator, <<"-", "i">>, <<"1">>,
                       <<"-", "-">> \o BurstSizeKey, <<"1">>, <<"-", "-">> \o kv[1], kv[2]>> :
                     kv \in {<<AlgorithmKey, Lz4>>, <<AlgorithmKey, Zstd>>,
                              <<ChecksumKey, Crc32>>, <<ChecksumKey, Md5>>} }
              ELSE {})

envVars   == <<bench, devCount>>
xformVars == <<algorithm, checksum, comp_xform>>
queueVars == <<devInflight, devDone>>
callVars  == <<poll_start, poll_end, enqueued, total_dequeued>>
histVars  == <<sumEnqueued, sumDequeued, lastEnqueued, zeroCycles, succCycles,
               pauseCycles, printed>>

\* rte_exit(EXIT_FAILURE, msg)
RteExit(msg) ==
    /\ status' = "failure"
    /\ errmsg' = msg
    /\ pc' = "exited"

InitProc ==
    /\ bench \in Kinds
    /\ devCount \in {0, 1}
    /\ pc = "init_dpdk"
    /\ status = "running"
    /\ errmsg = ""
    /\ out = <<>>
    /\ loop_i = 0
    /\ burst_size = 0
    /\ now = 0
    /\ start = 0
    /\ total_poll_cycles = 0
    /\ poll_start = 0
    /\ poll_end = 0
    /\ enqueued = 0
    /\ total_dequeued = 0
    /\ in_flight_ops = 0
    /\ vdev_initialized = FALSE
    /\ devInflight = 0
    /\ devDone = 0
    /\ sumEnqueued = 0
    /\ sumDequeued = 0
    /\ lastEnqueued = 0
    /\ zeroCycles = 0
    /\ succCycles = 0
    /\ pauseCycles = 0
    /\ creationFailed = FALSE
    /\ printed = <<>>
    /\ algorithm = NULL
    /\ checksum = NULL
    /\ comp_xform = NoXform

IdleProc ==
    /\ bench = "crypto_encrypt"
    /\ devCount = 1
    /\ pc = "idle"
    /\ status = "idle"
    /\ errmsg = ""
    /\ out = <<>>
    /\ loop_i = 0
    /\ burst_size = 0
    /\ now = 0
    /\ start = 0
    /\ total_poll_cycles = 0
    /\ poll_start = 0
    /\ poll_end = 0
    /\ enqueued = 0
    /\ total_dequeued = 0
    /\ in_flight_ops = 0
    /\ vdev_initialized = FALSE
    /\ devInflight = 0
    /\ devDone = 0
    /\ sumEnqueued = 0
    /\ sumDequeued = 0
    /\ lastEnqueued = 0
    /\ zeroCycles = 0
    /\ succCycles = 0
    /\ pauseCycles = 0
    /\ creationFailed = FALSE
    /\ printed = <<>>
    /\ algorithm = NULL
    /\ checksum = NULL
    /\ comp_xform = NoXform

\* main: init_dpdk(argc, argv) -> parse_command_line_args and rte_eal_init
init_dpdk ==
    /\ status = "running"
    /\ pc = "init_dpdk"
    /\ \/ parse_flags
       \/ parse_params
    /\ IF argPc' = "eal_failed"
       THEN RteExit("Error with EAL initialization")
       ELSE /\ pc' = "setup_device"
            /\ UNCHANGED <<status, errmsg>>
    /\ UNCHANGED <<envVars, xformVars, out, loop_i, burst_size, now, start, total_poll_cycles, callVars,
                   in_flight_ops, vdev_initialized, queueVars, histVars, creationFailed>>

\* setup_cryptodev / setup_compressdev / setup_ethernet_device
setup_device ==
    /\ status = "running"
    /\ pc = "setup_device"
    /\ \/ /\ Template(bench) = "cryptodev"
          /\ IF devCount < 1
             THEN /\ RteExit("No crypto devices available")
                  /\ UNCHANGED creationFailed
             ELSE \E failed \in {"", "crypto operation pool", "session pool",
                                 "encrypt session", "decrypt session"} :
                     IF failed # ""
                     THEN /\ creationFailed' = TRUE
                          /\ RteExit("Failed to create " \o failed)
                     ELSE /\ pc' = "setup_benchmark"
                          /\ UNCHANGED <<status, errmsg, creationFailed>>
          /\ UNCHANGED <<vdev_initialized, out>>
       \/ /\ Template(bench) = "compressdev"
          /\ \E vdev_ret \in {0, -1}, failed \in {"", "compression operation pool",
                                                  "decompression private xform"} :
                IF devCount < 1 /\ vdev_ret < 0
                THEN /\ out' = Append(out, [line |-> "No compression devices found"])
                     /\ creationFailed' = TRUE
                     /\ RteExit("Failed to initialize compress_zlib virtual device")
                     /\ UNCHANGED vdev_initialized
                ELSE /\ out' = Append(out, [line |-> IF devCount < 1
                                                     THEN "No compression devices found"
                                                     ELSE "Found existing compression device"])
                     /\ vdev_initialized' = (devCount < 1)
                     /\ IF failed # ""
                        THEN /\ creationFailed' = TRUE
                             /\ RteExit("Failed to create " \o failed)
                        ELSE /\ pc' = "setup_benchmark"
                             /\ UNCHANGED <<status, errmsg, creationFailed>>
       \/ /\ Template(bench) = "ethdev"
          /\ IF devCount = 0
             THEN RteExit("No available Ethernet devices")
             ELSE /\ pc' = "setup_benchmark"
                  /\ UNCHANGED <<status, errmsg>>
          /\ UNCHANGED <<vdev_initialized, out, creationFailed>>
    /\ UNCHANGED <<envVars, xformVars, loop_i, burst_size, now, start, total_poll_cycles, callVars,
                   in_flight_ops, queueVars, histVars>>

\* setup_benchmark: the {{BENCHMARK_SETUP}} snippet
setup_benchmark ==
    /\ status = "running"
    /\ pc = "setup_benchmark"
    /\ burst_size' = CASE UsesQueue(bench) -> BurstSizeParam(g_params)
                       [] bench = "rx_burst" -> g_burst_size
                       [] OTHER -> burst_size
    /\ IF bench = "compress_poll"
       THEN /\ algorithm' = AlgorithmParam(g_params)
            /\ checksum' = ChecksumParam(g_params)
            /\ comp_xform' = [algo |-> XformAlgo(algorithm'),
                              chksum |-> IF SupportedAlgorithm(algorithm')
                                         THEN XformChecksum(checksum')
                                         ELSE comp_xform.chksum]
       ELSE UNCHANGED xformVars
    /\ \E failed \in {"", "ops", "mbuf pool", "private xform"} :
          CASE bench = "compress_poll" /\ ~SupportedAlgorithm(algorithm') ->
                 /\ RteExit("Unsupported algorithm")
                 /\ UNCHANGED creationFailed
            [] failed = "private xform" /\ bench = "compress_poll" ->
                 /\ creationFailed' = TRUE
                 /\ RteExit("Failed to create compression private xform")
            [] failed \in {"", "private xform"}
                  \/ bench \in {"xform_create_free", "alloc_bulk"} ->
                 /\ pc' = "run_benchmark"
                 /\ UNCHANGED <<status, errmsg, creationFailed>>
            [] failed = "ops" ->
                 /\ RteExit("Failed to allocate ops")
                 /\ UNCHANGED creationFailed
            [] failed = "mbuf pool" ->
                 IF bench \in {"crypto_encrypt", "crypto_track", "crypto_poll", "compress_poll"}
                 THEN /\ creationFailed' = TRUE
                      /\ RteExit("Failed to create mbuf pool")
                 ELSE /\ RteExit("Failed to allocate mbufs")
                      /\ UNCHANGED creationFailed
    /\ UNCHANGED <<envVars, out, loop_i, now, start, total_poll_cycles, callVars,
                   in_flight_ops, vdev_initialized, queueVars, histVars>>

\* run_benchmark: start = rte_rdtsc() and the loop initialisation
run_benchmark_start ==
    /\ status = "running"
    /\ pc = "run_benchmark"
    /\ start' = now
    /\ loop_i' = 0
    /\ total_poll_cycles' = IF Template(bench) = "compressdev" THEN 0 ELSE total_poll_cycles
    /\ pc' = "loop_head"
    /\ UNCHANGED <<envVars, xformVars, status, errmsg, out, burst_size, now, callVars, in_flight_ops,
                   vdev_initialized, queueVars, histVars, creationFailed>>

\* for (unsigned long long i = 0; i < g_iterations; ++i): the loop test
loop_head ==
    /\ status = "running"
    /\ pc = "loop_head"
    /\ loop_i < MaxIterations \/ ~(loop_i < g_iterations)
    /\ pc' = IF loop_i < g_iterations THEN "call" ELSE "run_end"
    /\ UNCHANGED <<envVars, xformVars, status, errmsg, out, loop_i, burst_size, now, start,
                   total_poll_cycles, callVars, in_flight_ops, vdev_initialized,
                   queueVars, histVars, creationFailed>>

\* rte_cryptodev_enqueue_burst / rte_compressdev_enqueue_burst(cdev_id, 0, ops, burst_size)
\* and the declarations that follow it in the call snippet
enqueue_burst ==
    /\ status = "running"
    /\ pc = "call"
    /\ UsesQueue(bench)
    /\ LET n == Min(burst_size, NbDescriptors - devInflight - devDone)
       IN  /\ devInflight' = devInflight + n
           /\ enqueued' = IF bench = "crypto_encrypt" THEN enqueued ELSE n
           /\ in_flight_ops' = IF bench = "crypto_track" THEN in_flight_ops + n
                               ELSE in_flight_ops
           /\ sumEnqueued' = sumEnqueued + n
           /\ lastEnqueued' = n
    /\ now' = now + CallCycles
    /\ total_dequeued' = 0
    /\ poll_start' = IF Polls(bench) THEN now' ELSE poll_start
    /\ poll_end' = IF Polls(bench) THEN now' ELSE poll_end
    /\ pc' = IF Polls(bench) THEN "poll" ELSE "dequeue"
    /\ UNCHANGED <<envVars, xformVars, status, errmsg, out, loop_i, burst_size, start,
                   total_poll_cycles, vdev_initialized, devDone, sumDequeued,
                   zeroCycles, succCycles, pauseCycles, printed, creationFailed>>

\* the single rte_cryptodev_dequeue_burst(cdev_id, 0, dequeued_ops, burst_size) of the
\* non-polling call snippets
dequeue_burst_once ==
    /\ status = "running"
    /\ pc = "dequeue"
    /\ LET n == Min(burst_size, devDone)
       IN  /\ devDone' = devDone - n
           /\ sumDequeued' = sumDequeued + n
           /\ in_flight_ops' = IF bench = "crypto_track" THEN in_flight_ops - n
                               ELSE in_flight_ops
    /\ now' = now + CallCycles
    /\ pc' = "loop_tail"
    /\ UNCHANGED <<envVars, xformVars, status, errmsg, out, loop_i, burst_size, start,
                   total_poll_cycles, callVars, vdev_initialized, devInflight,
                   sumEnqueued, lastEnqueued, zeroCycles, succCycles, pauseCycles,
                   printed, creationFailed>>

\* one pass of while (total_dequeued < enqueued) { dequeued = ..._dequeue_burst(...) ... }
poll_dequeue ==
    /\ status = "running"
    /\ pc = "poll"
    /\ total_dequeued < enqueued
    /\ \E d \in 1..MaxAttemptCycles :
          /\ now + d <= MaxTsc
          /\ now' = now + d
          /\ LET n == Min(enqueued - total_dequeued, devDone)
             IN  /\ devDone' = devDone - n
                 /\ sumDequeued' = sumDequeued + n
                 /\ IF n > 0
                    THEN /\ total_dequeued' = total_dequeued + n
                         /\ succCycles' = succCycles + d
                         /\ pc' = IF bench = "crypto_poll" THEN "validate" ELSE "poll"
                         /\ UNCHANGED <<poll_end, zeroCycles>>
                    ELSE /\ poll_end' = IF bench = "crypto_poll" THEN now' ELSE poll_end
                         /\ zeroCycles' = zeroCycles + d
                         /\ pc' = "poll"
                         /\ UNCHANGED <<total_dequeued, succCycles>>
    /\ UNCHANGED <<envVars, xformVars, status, errmsg, out, loop_i, burst_size, start,
                   total_poll_cycles, poll_start, enqueued, in_flight_ops,
                   vdev_initialized, devInflight, sumEnqueued, lastEnqueued,
                   pauseCycles, printed, creationFailed>>

\* poll_cycles measured from the start of the run instead of from poll_start
poll_cycles_from_run_start == U64Sub(now, start)

\* poll_cycles as the call snippet computes it once the polling loop is left
poll_cycles ==
    IF bench = "compress_poll" THEN U64Sub(now, poll_start)
    ELSE U64Sub(poll_end, poll_start)

\* after the polling loop: if (enqueued != total_dequeued) rte_exit(...);
\* total_poll_cycles += poll_cycles
poll_validate ==
    /\ status = "running"
    /\ pc = "validate" \/ (pc = "poll" /\ ~(total_dequeued < enqueued))
    /\ IF enqueued # total_dequeued
       THEN /\ RteExit("ERROR: Enqueued but dequeued operations")
            /\ UNCHANGED total_poll_cycles
       ELSE /\ total_poll_cycles' = (total_poll_cycles + poll_cycles) % CycleModulus
            /\ pc' = "loop_tail"
            /\ UNCHANGED <<status, errmsg>>
    /\ UNCHANGED <<envVars, xformVars, out, loop_i, burst_size, now, start, callVars, in_flight_ops,
                   vdev_initialized, queueVars, histVars, creationFailed>>

\* session / private xform create-and-free call snippets: a failed creation is skipped
create_free_call ==
    /\ status = "running"
    /\ pc = "call"
    /\ bench \in {"session_create_free", "xform_create_free"}
    /\ \E created \in BOOLEAN : creationFailed' = (creationFailed \/ ~created)
    /\ now' = now + CallCycles
    /\ pc' = "loop_tail"
    /\ UNCHANGED <<envVars, xformVars, status, errmsg, out, loop_i, burst_size, start,
                   total_poll_cycles, callVars, in_flight_ops, vdev_initialized,
                   queueVars, histVars>>

\* rx_burst call snippet: the metadata line is printed inside the loop
rx_burst_call ==
    /\ status = "running"
    /\ pc = "call"
    /\ bench = "rx_burst"
    /\ out' = IF loop_i = g_iterations - 1
              THEN Append(out, [line |-> "metadata", value |-> burst_size])
              ELSE out
    /\ now' = now + CallCycles
    /\ pc' = "loop_tail"
    /\ UNCHANGED <<envVars, xformVars, status, errmsg, loop_i, burst_size, start, total_poll_cycles,
                   callVars, in_flight_ops, vdev_initialized, queueVars, histVars,
                   creationFailed>>

\* alloc_bulk call snippet: strtoul(get_benchmark_param("burst_size"), NULL, 10) with
\* no NULL check; strtoul(NULL, ...) is undefined: a crash or an arbitrary value
alloc_bulk_call ==
    /\ status = "running"
    /\ pc = "call"
    /\ bench = "alloc_bulk"
    /\ LET burst_size_str == get_benchmark_param(g_params, BurstSizeKey)
       IN  \/ /\ burst_size_str = NULL
              /\ status' = "crash"
              /\ pc' = "exited"
              /\ UNCHANGED <<errmsg, burst_size>>
           \/ /\ burst_size' \in IF burst_size_str = NULL THEN {0, 1}
                                 ELSE {StrToUInt(burst_size_str)}
              /\ \E alloc_ret \in {0, -1} :
                    IF alloc_ret # 0
                    THEN RteExit("Cannot allocate mbufs in alloc_bulk benchmark")
                    ELSE /\ pc' = "loop_tail"
                         /\ UNCHANGED <<status, errmsg>>
    /\ now' = now + CallCycles
    /\ UNCHANGED <<envVars, xformVars, out, loop_i, start, total_poll_cycles, callVars,
                   in_flight_ops, vdev_initialized, queueVars, histVars, creationFailed>>

\* the end of the loop body: the compressdev template times an rte_pause and adds it
\* to total_poll_cycles; then ++i
loop_tail ==
    /\ status = "running"
    /\ pc = "loop_tail"
    /\ \E p \in 0..MaxPauseCycles :
          /\ Template(bench) = "compressdev" \/ p = 0
          /\ now' = now + p
          /\ total_poll_cycles' = (total_poll_cycles + p) % CycleModulus
          /\ pauseCycles' = pauseCycles + p
    /\ loop_i' = loop_i + 1
    /\ pc' = "loop_head"
    /\ UNCHANGED <<envVars, xformVars, status, errmsg, out, burst_size, start, callVars,
                   in_flight_ops, vdev_initialized, queueVars, sumEnqueued, sumDequeued,
                   lastEnqueued, zeroCycles, succCycles, printed, creationFailed>>

\* what run_benchmark prints once the loop is over
ResultLine(endv) ==
    CASE Template(bench) = "compressdev" ->
            [line |-> "Total cycles",
             value |-> U64Sub(U64Sub(endv, start), total_poll_cycles)]
      [] bench = "rx_burst" ->
            [line |-> "Cycles per call", value |-> U64Sub(endv, start) \div g_iterations]
      [] OTHER ->
            [line |-> "Total cycles", value |-> U64Sub(endv, start)]

\* end = rte_rdtsc(); printf("Total cycles: ...") / printf("Cycles per call: ...")
run_benchmark_end ==
    /\ status = "running"
    /\ pc = "run_end"
    /\ out' = Append(out, ResultLine(now))
    /\ printed' = <<[endv |-> now, startv |-> start, poll |-> total_poll_cycles,
                     value |-> ResultLine(now).value]>>
    /\ pc' = IF bench = "crypto_track" THEN "cleanup" ELSE "teardown_benchmark"
    /\ UNCHANGED <<envVars, xformVars, status, errmsg, loop_i, burst_size, now, start,
                   total_poll_cycles, callVars, in_flight_ops, vdev_initialized,
                   queueVars, sumEnqueued, sumDequeued, lastEnqueued, zeroCycles,
                   succCycles, pauseCycles, creationFailed>>

\* {{CLEANUP_INFLIGHT}}: while (in_flight_ops > 0) { dequeue; if none: break }
cleanup_inflight ==
    /\ status = "running"
    /\ pc = "cleanup"
    /\ LET n == Min(CleanupBurst, devDone)
       IN  IF in_flight_ops > 0 /\ n > 0
           THEN /\ in_flight_ops' = in_flight_ops - n
                /\ devDone' = devDone - n
                /\ sumDequeued' = sumDequeued + n
                /\ pc' = "cleanup"
           ELSE /\ pc' = "teardown_benchmark"
                /\ UNCHANGED <<in_flight_ops, devDone, sumDequeued>>
    /\ UNCHANGED <<envVars, xformVars, status, errmsg, out, loop_i, burst_size, now, start,
                   total_poll_cycles, callVars, vdev_initialized, devInflight,
                   sumEnqueued, lastEnqueued, zeroCycles, succCycles, pauseCycles,
                   printed, creationFailed>>

\* teardown_benchmark: the {{BENCHMARK_TEARDOWN}} snippet
teardown_benchmark ==
    /\ status = "running"
    /\ pc = "teardown_benchmark"
    /\ IF bench = "crypto_track" /\ in_flight_ops # 0
       THEN /\ RteExit("ERROR: operations still in-flight at teardown")
            /\ UNCHANGED out
       ELSE /\ out' = CASE bench = "compress_poll" ->
                             Append(out, [line |-> "metadata", value |-> burst_size,
                                          algorithm |-> algorithm, checksum |-> checksum])
                        [] bench = "crypto_poll" ->
                             Append(out, [line |-> "metadata", value |-> burst_size])
                        [] OTHER -> out
            /\ pc' = "teardown_device"
            /\ UNCHANGED <<status, errmsg>>
    /\ UNCHANGED <<envVars, xformVars, loop_i, burst_size, now, start, total_poll_cycles, callVars,
                   in_flight_ops, vdev_initialized, queueVars, histVars, creationFailed>>

\* teardown of the device, cleanup_dpdk(), return 0
main_return ==
    /\ status = "running"
    /\ pc = "teardown_device"
    /\ status' = "exit0"
    /\ pc' = "exited"
    /\ UNCHANGED <<envVars, xformVars, errmsg, out, loop_i, burst_size, now, start,
                   total_poll_cycles, callVars, in_flight_ops, vdev_initialized,
                   queueVars, histVars, creationFailed>>

\* the device finishes some of the operations it holds
device_complete ==
    /\ status = "running"
    /\ devInflight > 0
    /\ \E k \in 1..devInflight :
          /\ devInflight' = devInflight - k
          /\ devDone' = devDone + k
    /\ UNCHANGED <<envVars, xformVars, pc, status, errmsg, out, loop_i, burst_size, now, start,
                   total_poll_cycles, callVars, in_flight_ops, vdev_initialized,
                   histVars, creationFailed>>

-----------------------------------------------------------------------------
(* The setup snippets: burst_size and the size parameter, the static arrays the
   burst is kept in, the mbuf pool, and what is written into an mbuf *)

SetupKinds == {"compress", "decrypt", "rx_burst", "tx_burst"}

DataRoomModulus    == 65536     \* uint16_t data_room_size
AES_GCM_TAG_LENGTH == 16
DefaultDataSize    == 1024
DefaultPktSize     == 64
HeaderBytes        == 42        \* Ethernet, IP and UDP headers of the template packet
CompressArrayCapacity == 32     \* ops[32], mbufs[32]
BufsCapacity          == 32     \* bufs = calloc(32, sizeof(struct rte_mbuf *))
CryptoArrayCapacity   == 256    \* ops[256], mbufs[256], dst_mbufs[256], ivs[256]
CompressMbufDataSize  == 65536  \* #define MBUF_DATA_SIZE 65536
CryptoMbufDataSize    == 32768  \* #define MBUF_DATA_SIZE 32768

DataSizeKey == <<"d", "a", "t", "a", "_", "s", "i", "z", "e">>
PktSizeKey  == <<"p", "k", "t", "_", "s", "i", "z", "e">>

\* the value strings the setups are started with
BurstStrings == {NoArg, <<"1">>, <<"3", "2">>, <<"3", "3">>, <<"2", "5", "6">>,
                 <<"2", "5", "7">>}
SizeStrings  == {NoArg, <<"0">>, <<"1", "5">>, <<"1", "6">>, <<"4", "2">>,
                 <<"1", "5", "0", "0">>, <<"3", "2", "7", "6", "8">>,
                 <<"3", "2", "7", "6", "9">>, <<"6", "5", "5", "3", "6">>,
                 <<"6", "5", "5", "3", "7">>}

SetupArgVectors(k) ==
    { <<ProgName, <<"-", "l">>, Separator>>
        \o (IF b = NoArg THEN <<>> ELSE << <<"-", "-">> \o BurstSizeKey, b >>)
        \o (IF z = NoArg \/ k = "rx_burst" THEN <<>>
            ELSE << <<"-", "-">> \o (IF k = "tx_burst" THEN PktSizeKey ELSE DataSizeKey), z >>) :
      b \in BurstStrings, z \in SizeStrings }

\* str ? (unsigned int)strtoul(str, NULL, 10) : dflt
UIntParam(params, key, dflt) ==
    LET str == get_benchmark_param(params, key)
    IN  IF str # NULL THEN StrToUInt(str) ELSE dflt

\* unsigned int a - b
UIntSub(a, b) == (a - b) % UIntModulus

\* entries of the arrays the burst is kept in; the tx_burst setup replaces bufs by
\* calloc(burst_size, ...) when burst_size is not 32
ArrayCapacity(k, burst) ==
    CASE k = "compress" -> CompressArrayCapacity
      [] k = "decrypt"  -> CryptoArrayCapacity
      [] k = "rx_burst" -> BufsCapacity
      [] k = "tx_burst" -> IF burst # 32 THEN burst ELSE BufsCapacity

\* the data room argument of rte_pktmbuf_pool_create, converted to uint16_t; the
\* ethdev template passes RTE_MBUF_DEFAULT_BUF_SIZE, which no pool can exceed the
\* largest 16-bit value with
DataRoomArgument(k) ==
    CASE k = "compress" -> CompressMbufDataSize % DataRoomModulus
      [] k = "decrypt"  -> CryptoMbufDataSize % DataRoomModulus
      [] OTHER          -> DataRoomModulus - 1

setupFrame == <<envVars, xformVars, pc, out, loop_i, now, start, total_poll_cycles,
                callVars, in_flight_ops, vdev_initialized, queueVars, histVars,
                creationFailed>>

IdleSetup ==
    /\ setupKind = "none"
    /\ setupPc = "idle"
    /\ data_size = 0
    /\ pkt_size = 0
    /\ data_room_size = 0
    /\ topIndex = -1
    /\ bytesWritten = 0

InitSetup ==
    /\ setupKind \in SetupKinds
    /\ setupPc = "params"
    /\ data_size = 0
    /\ pkt_size = 0
    /\ data_room_size = 0
    /\ topIndex = -1
    /\ bytesWritten = 0
    /\ driver = "params"
    /\ argv \in SetupArgVectors(setupKind)
    /\ argPc = "parse"
    /\ eal_argv = <<>>
    /\ benchIdx = {}
    /\ g_burst_size = DefaultBurstSize
    /\ g_iterations = DefaultIterations
    /\ g_payload_size = DefaultPayloadSize
    /\ g_params = <<>>

\* the parameter lines of setup.c and the validation of the size parameter
setup_params ==
    /\ argPc = "parsed"
    /\ setupPc = "params"
    /\ burst_size' = UIntParam(g_params, BurstSizeKey, DefaultBurstSize)
    /\ data_size' = IF setupKind \in {"compress", "decrypt"}
                    THEN UIntParam(g_params, DataSizeKey, DefaultDataSize) ELSE 0
    /\ pkt_size' = IF setupKind = "tx_burst"
                   THEN UIntParam(g_params, PktSizeKey, DefaultPktSize) ELSE 0
    /\ CASE setupKind = "decrypt" /\ data_size' < AES_GCM_TAG_LENGTH ->
               /\ status' = "failure"
               /\ errmsg' = "data_size must be >= AES_GCM_TAG_LENGTH"
               /\ setupPc' = "exited"
         [] setupKind = "decrypt" /\ data_size' >= AES_GCM_TAG_LENGTH
                                  /\ data_size' > CryptoMbufDataSize ->
               /\ status' = "failure"
               /\ errmsg' = "data_size exceeds MBUF_DATA_SIZE"
               /\ setupPc' = "exited"
         [] setupKind = "compress" /\ data_size' > CompressMbufDataSize ->
               /\ status' = "failure"
               /\ errmsg' = "data_size exceeds MBUF_DATA_SIZE"
               /\ setupPc' = "exited"
         [] OTHER ->
               /\ status' = "running"
               /\ errmsg' = ""
               /\ setupPc' = "alloc"
    /\ UNCHANGED <<setupFrame, setupKind, data_room_size, topIndex, bytesWritten>>

\* rte_*_op_bulk_alloc(pool, ops, burst_size), rte_pktmbuf_alloc_bulk(pool, mbufs,
\* burst_size) and the loops over i < burst_size: entries 0 .. burst_size-1 of the
\* arrays are used; beyond the arrays' end this is undefined behaviour, after
\* which the process crashes or goes on
setup_alloc ==
    /\ setupPc = "alloc"
    /\ topIndex' = burst_size - 1
    /\ \E goes_on \in BOOLEAN :
          /\ (burst_size <= ArrayCapacity(setupKind, burst_size)) => goes_on
          /\ setupPc' = IF goes_on THEN "pool" ELSE "crashed"
          /\ status' = IF goes_on THEN status ELSE "crash"
    /\ UNCHANGED <<setupFrame, burst_size, errmsg, setupKind, data_size, pkt_size,
                   data_room_size, bytesWritten>>

\* rte_pktmbuf_pool_create(name, n, cache, 0, MBUF_DATA_SIZE, socket)
setup_pool ==
    /\ setupPc = "pool"
    /\ data_room_size' = DataRoomArgument(setupKind)
    /\ setupPc' = IF setupKind = "rx_burst" THEN "done" ELSE "fill"
    /\ UNCHANGED <<setupFrame, burst_size, status, errmsg, setupKind, data_size,
                   pkt_size, topIndex, bytesWritten>>

\* what is written into the data area of an mbuf:
\*   compress  for (j = 0; j < data_size; j++) data[j] = ...
\*   decrypt   the encryption of data_size - AES_GCM_TAG_LENGTH bytes at offset 0
\*             and the tag at offset data_size - AES_GCM_TAG_LENGTH
\*   tx_burst  data[0..41], then for (i = 0; i < pkt_size - 42; i++) data[42 + i] = ...
\* a write past the data room is undefined behaviour
setup_fill ==
    /\ setupPc = "fill"
    /\ bytesWritten' =
          CASE setupKind = "compress" -> data_size
            [] setupKind = "decrypt"  ->
                  UIntSub(data_size, AES_GCM_TAG_LENGTH) + AES_GCM_TAG_LENGTH
            [] setupKind = "tx_burst" -> HeaderBytes + UIntSub(pkt_size, HeaderBytes)
    /\ \E goes_on \in BOOLEAN :
          /\ (bytesWritten' <= data_room_size) => goes_on
          /\ setupPc' = IF goes_on THEN "done" ELSE "crashed"
          /\ status' = IF goes_on THEN status ELSE "crash"
    /\ UNCHANGED <<setupFrame, burst_size, errmsg, setupKind, data_size, pkt_size,
                   data_room_size, topIndex>>

-----------------------------------------------------------------------------
(* The waiting loops of the snippets: the drain loop that ends the decrypt
   setup, the polling loops of the call snippets, the in-flight cleanup loop.
   Loop test and loop body are separate steps; the clock plays no part. *)

WaitLoops == {"setup_drain", "crypto_poll", "compress_poll", "cleanup"}

MaxLeftInFlight == 2      \* operations in flight when the cleanup loop starts

\* burst sizes explored: below the queue pair size and just above it
WaitBurstSizes == {1, 2, NbDescriptors + 1}

\* what rte_*_enqueue_burst accepts of a burst of n operations
Accepted(n) == Min(n, NbDescriptors - devInflight - devDone)

waitFrame == <<envVars, xformVars, status, errmsg, out, loop_i, now, start,
               total_poll_cycles, poll_start, poll_end, vdev_initialized,
               histVars, creationFailed>>

IdleWait ==
    /\ waitLoop = "none"
    /\ completed = 0

InitWait ==
    /\ waitLoop \in WaitLoops
    /\ completed = 0
    /\ burst_size \in WaitBurstSizes
    /\ in_flight_ops \in (IF waitLoop = "cleanup"
                          THEN 0 .. Min(burst_size, MaxLeftInFlight) ELSE {0})
    /\ devDone \in 0 .. in_flight_ops
    /\ devInflight = in_flight_ops - devDone
    /\ pc = CASE waitLoop = "setup_drain" -> "drain_enqueue"
              [] waitLoop = "cleanup"     -> "cleanup_test"
              [] OTHER                    -> "poll_enqueue"
    /\ status = "running"
    /\ bench = "crypto_encrypt"
    /\ devCount = 1
    /\ errmsg = ""
    /\ out = <<>>
    /\ loop_i = 0
    /\ now = 0
    /\ start = 0
    /\ total_poll_cycles = 0
    /\ poll_start = 0
    /\ poll_end = 0
    /\ enqueued = 0
    /\ total_dequeued = 0
    /\ vdev_initialized = TRUE
    /\ sumEnqueued = 0
    /\ sumDequeued = 0
    /\ lastEnqueued = 0
    /\ zeroCycles = 0
    /\ succCycles = 0
    /\ pauseCycles = 0
    /\ creationFailed = FALSE
    /\ printed = <<>>
    /\ algorithm = NULL
    /\ checksum = NULL
    /\ comp_xform = NoXform

\* rte_cryptodev_enqueue_burst(cdev_id, 0, ops, burst_size); the return value is
\* dropped; unsigned int completed = 0;
drain_enqueue ==
    /\ pc = "drain_enqueue"
    /\ devInflight' = devInflight + Accepted(burst_size)
    /\ completed' = 0
    /\ pc' = "drain_test"
    /\ UNCHANGED <<waitFrame, waitLoop, burst_size, enqueued, total_dequeued,
                   in_flight_ops, devDone>>

\* while (completed < burst_size)
drain_test ==
    /\ pc = "drain_test"
    /\ pc' = IF completed < burst_size THEN "drain_dequeue" ELSE "wait_done"
    /\ UNCHANGED <<waitFrame, waitVars, burst_size, enqueued, total_dequeued,
                   in_flight_ops, queueVars>>

\* n = rte_cryptodev_dequeue_burst(..., burst_size - completed); completed += n;
drain_dequeue ==
    /\ pc = "drain_dequeue"
    /\ LET n == Min(burst_size - completed, devDone)
       IN  /\ devDone' = devDone - n
           /\ completed' = completed + n
    /\ pc' = "drain_test"
    /\ UNCHANGED <<waitFrame, waitLoop, burst_size, enqueued, total_dequeued,
                   in_flight_ops, devInflight>>

\* unsigned int enqueued = rte_*_enqueue_burst(cdev_id, 0, ops, burst_size);
\* unsigned int total_dequeued = 0;
wait_enqueue ==
    /\ pc = "poll_enqueue"
    /\ enqueued' = Accepted(burst_size)
    /\ devInflight' = devInflight + Accepted(burst_size)
    /\ total_dequeued' = 0
    /\ pc' = "poll_test"
    /\ UNCHANGED <<waitFrame, waitVars, burst_size, in_flight_ops, devDone>>

\* while (total_dequeued < enqueued)
wait_test ==
    /\ pc = "poll_test"
    /\ pc' = IF total_dequeued < enqueued THEN "poll_dequeue" ELSE "wait_done"
    /\ UNCHANGED <<waitFrame, waitVars, burst_size, enqueued, total_dequeued,
                   in_flight_ops, queueVars>>

\* dequeued = rte_*_dequeue_burst(..., enqueued - total_dequeued);
\* if (dequeued > 0) { total_dequeued += dequeued; [cryptodev snippet: break;] }
wait_dequeue ==
    /\ pc = "poll_dequeue"
    /\ LET dequeued == Min(enqueued - total_dequeued, devDone)
       IN  /\ devDone' = devDone - dequeued
           /\ total_dequeued' = total_dequeued + dequeued
           /\ pc' = IF dequeued > 0 /\ waitLoop = "crypto_poll"
                    THEN "wait_done" ELSE "poll_test"
    /\ UNCHANGED <<waitFrame, waitVars, burst_size, enqueued, in_flight_ops,
                   devInflight>>

\* while (in_flight_ops > 0)
wait_cleanup_test ==
    /\ pc = "cleanup_test"
    /\ pc' = IF in_flight_ops > 0 THEN "cleanup_dequeue" ELSE "wait_done"
    /\ UNCHANGED <<waitFrame, waitVars, burst_size, enqueued, total_dequeued,
                   in_flight_ops, queueVars>>

\* dequeued = rte_cryptodev_dequeue_burst(..., burst_size); in_flight_ops -= dequeued;
wait_cleanup_dequeue ==
    /\ pc = "cleanup_dequeue"
    /\ LET dequeued == Min(burst_size, devDone)
       IN  /\ devDone' = devDone - dequeued
           /\ in_flight_ops' = in_flight_ops - dequeued
    /\ pc' = "cleanup_test"
    /\ UNCHANGED <<waitFrame, waitVars, burst_size, enqueued, total_dequeued,
                   devInflight>>

-----------------------------------------------------------------------------
(* ixgbe driver patches: FCTRL writes (no_rxen_on_fctrl_write) and the start of
   a transmit queue (tdh_order_of_operations) *)

IxgbeFunctions == {"ixgbe_dev_promiscuous_enable", "ixgbe_dev_promiscuous_disable",
                   "ixgbe_dev_allmulticast_enable", "ixgbe_dev_allmulticast_disable",
                   "ixgbe_dev_tx_queue_start"}

\* ixgbe_dev_tx_queue_start before the patch: TDT written after the enable
IxgbeProgram_unpatched(fn) ==
    IF fn = "ixgbe_dev_tx_queue_start"
    THEN <<"write_tdh", "enable_txq", "poll_txdctl", "wmb", "write_tdt",
           "set_started", "return">>
    ELSE <<"clear_rxen", "modify_fctrl", "write_fctrl", "set_rxen", "return">>

\* the statements of each patched function, in program order
IxgbeProgram(fn) ==
    CASE fn = "ixgbe_dev_promiscuous_enable" ->
            <<"clear_rxen", "modify_fctrl", "write_fctrl", "set_rxen", "return">>
      [] fn = "ixgbe_dev_promiscuous_disable" ->
            <<"clear_rxen", "modify_fctrl", "write_fctrl", "set_rxen", "return">>
      [] fn = "ixgbe_dev_allmulticast_enable" ->
            <<"clear_rxen", "modify_fctrl", "set_rxen", "write_fctrl", "return">>
      [] fn = "ixgbe_dev_allmulticast_disable" ->
            <<"check_promiscuous", "clear_rxen", "modify_fctrl", "write_fctrl",
              "set_rxen", "return">>
      [] fn = "ixgbe_dev_tx_queue_start" ->
            <<"write_tdh", "write_tdt", "wmb", "enable_txq", "poll_txdctl",
              "set_started", "return">>

IxStep == IF ixPc \in DOMAIN IxgbeProgram(ixFn) THEN IxgbeProgram(ixFn)[ixPc] ELSE "done"

\* what the function does to its local copy of FCTRL
ModifiedFctrl(fn, v) ==
    CASE fn = "ixgbe_dev_promiscuous_enable" -> v \cup {"UPE", "MPE"}
      [] fn = "ixgbe_dev_promiscuous_disable" ->
            IF all_multicast = 1 THEN (v \ {"UPE"}) \cup {"MPE"} ELSE v \ {"UPE", "MPE"}
      [] fn = "ixgbe_dev_allmulticast_enable" -> v \cup {"MPE"}
      [] fn = "ixgbe_dev_allmulticast_disable" -> v \ {"MPE"}
      [] OTHER -> v

\* an entry of the log: a register write (or barrier) and the receive and transmit
\* enable bits at that moment
LogEntry(reg, val) ==
    [reg |-> reg, val |-> val, rxen |-> "RXEN" \in RXCTRL, txen |-> "ENABLE" \in TXDCTL]

InitIxgbe ==
    /\ ixFn \in IxgbeFunctions
    /\ ixPc = 1
    /\ RXCTRL \in SUBSET {"RXEN", "DMBYPS"}
    /\ FCTRL \in SUBSET {"UPE", "MPE", "BAM"}
    /\ TXDCTL = {}
    /\ TDH \in 0..1
    /\ TDT \in 0..1
    /\ rxctrl = {}
    /\ fctrl = {}
    /\ txdctl = {}
    /\ promiscuous \in {0, 1}
    /\ all_multicast \in {0, 1}
    /\ tx_queue_state = "STOPPED"
    /\ ixLog = <<>>

IdleIxgbe ==
    /\ ixFn = "none"
    /\ ixPc = 0
    /\ RXCTRL = {}
    /\ FCTRL = {}
    /\ TXDCTL = {}
    /\ TDH = 0
    /\ TDT = 0
    /\ rxctrl = {}
    /\ fctrl = {}
    /\ txdctl = {}
    /\ promiscuous = 0
    /\ all_multicast = 0
    /\ tx_queue_state = "STOPPED"
    /\ ixLog = <<>>

IdleAux == IdleIxgbe /\ IdleWait /\ IdleSetup

\* if (dev->data->promiscuous == 1) return 0;
ixgbe_check_promiscuous ==
    /\ IxStep = "check_promiscuous"
    /\ ixPc' = IF promiscuous = 1 THEN Len(IxgbeProgram(ixFn)) ELSE ixPc + 1
    /\ UNCHANGED <<ixFn, RXCTRL, FCTRL, TXDCTL, TDH, TDT, rxctrl, fctrl, txdctl,
                   promiscuous, all_multicast, tx_queue_state, ixLog>>

\* rxctrl = IXGBE_READ_REG(hw, IXGBE_RXCTRL); rxctrl &= ~IXGBE_RXCTRL_RXEN;
\* IXGBE_WRITE_REG(hw, IXGBE_RXCTRL, rxctrl)
ixgbe_clear_rxen ==
    /\ IxStep = "clear_rxen"
    /\ rxctrl' = RXCTRL \ {"RXEN"}
    /\ RXCTRL' = rxctrl'
    /\ ixLog' = Append(ixLog, LogEntry("RXCTRL", rxctrl'))
    /\ ixPc' = ixPc + 1
    /\ UNCHANGED <<ixFn, FCTRL, TXDCTL, TDH, TDT, fctrl, txdctl,
                   promiscuous, all_multicast, tx_queue_state>>

\* fctrl = IXGBE_READ_REG(hw, IXGBE_FCTRL); fctrl |= ... / fctrl &= ...
ixgbe_modify_fctrl ==
    /\ IxStep = "modify_fctrl"
    /\ fctrl' = ModifiedFctrl(ixFn, FCTRL)
    /\ ixPc' = ixPc + 1
    /\ UNCHANGED <<ixFn, RXCTRL, FCTRL, TXDCTL, TDH, TDT, rxctrl, txdctl,
                   promiscuous, all_multicast, tx_queue_state, ixLog>>

\* IXGBE_WRITE_REG(hw, IXGBE_FCTRL, fctrl)
ixgbe_write_fctrl ==
    /\ IxStep = "write_fctrl"
    /\ FCTRL' = fctrl
    /\ ixLog' = Append(ixLog, LogEntry("FCTRL", fctrl))
    /\ ixPc' = ixPc + 1
    /\ UNCHANGED <<ixFn, RXCTRL, TXDCTL, TDH, TDT, rxctrl, fctrl, txdctl,
                   promiscuous, all_multicast, tx_queue_state>>

\* rxctrl |= IXGBE_RXCTRL_RXEN; IXGBE_WRITE_REG(hw, IXGBE_RXCTRL, rxctrl)
ixgbe_set_rxen ==
    /\ IxStep = "set_rxen"
    /\ rxctrl' = rxctrl \cup {"RXEN"}
    /\ RXCTRL' = rxctrl'
    /\ ixLog' = Append(ixLog, LogEntry("RXCTRL", rxctrl'))
    /\ ixPc' = ixPc + 1
    /\ UNCHANGED <<ixFn, FCTRL, TXDCTL, TDH, TDT, fctrl, txdctl,
                   promiscuous, all_multicast, tx_queue_state>>

\* IXGBE_WRITE_REG(hw, IXGBE_TDH(txq->reg_idx), 0)
ixgbe_write_tdh ==
    /\ IxStep = "write_tdh"
    /\ TDH' = 0
    /\ ixLog' = Append(ixLog, LogEntry("TDH", 0))
    /\ ixPc' = ixPc + 1
    /\ UNCHANGED <<ixFn, RXCTRL, FCTRL, TXDCTL, TDT, rxctrl, fctrl, txdctl,
                   promiscuous, all_multicast, tx_queue_state>>

\* IXGBE_WRITE_REG(hw, IXGBE_TDT(txq->reg_idx), 0)
ixgbe_write_tdt ==
    /\ IxStep = "write_tdt"
    /\ TDT' = 0
    /\ ixLog' = Append(ixLog, LogEntry("TDT", 0))
    /\ ixPc' = ixPc + 1
    /\ UNCHANGED <<ixFn, RXCTRL, FCTRL, TXDCTL, TDH, rxctrl, fctrl, txdctl,
                   promiscuous, all_multicast, tx_queue_state>>

\* rte_wmb()
ixgbe_wmb ==
    /\ IxStep = "wmb"
    /\ ixLog' = Append(ixLog, LogEntry("wmb", 0))
    /\ ixPc' = ixPc + 1
    /\ UNCHANGED <<ixFn, RXCTRL, FCTRL, TXDCTL, TDH, TDT, rxctrl, fctrl, txdctl,
                   promiscuous, all_multicast, tx_queue_state>>

\* txdctl = IXGBE_READ_REG(hw, IXGBE_TXDCTL(...)); txdctl |= IXGBE_TXDCTL_ENABLE;
\* IXGBE_WRITE_REG(hw, IXGBE_TXDCTL(...), txdctl)
ixgbe_enable_txq ==
    /\ IxStep = "enable_txq"
    /\ txdctl' = TXDCTL \cup {"ENABLE"}
    /\ TXDCTL' = txdctl'
    /\ ixLog' = Append(ixLog, LogEntry("TXDCTL", txdctl'))
    /\ ixPc' = ixPc + 1
    /\ UNCHANGED <<ixFn, RXCTRL, FCTRL, TDH, TDT, rxctrl, fctrl,
                   promiscuous, all_multicast, tx_queue_state>>

\* the wait for the enable bit to read back: reads of TXDCTL only
ixgbe_poll_txdctl ==
    /\ IxStep = "poll_txdctl"
    /\ txdctl' = TXDCTL
    /\ ixPc' = ixPc + 1
    /\ UNCHANGED <<ixFn, RXCTRL, FCTRL, TXDCTL, TDH, TDT, rxctrl, fctrl,
                   promiscuous, all_multicast, tx_queue_state, ixLog>>

\* dev->data->tx_queue_state[tx_queue_id] = RTE_ETH_QUEUE_STATE_STARTED
ixgbe_set_started ==
    /\ IxStep = "set_started"
    /\ tx_queue_state' = "STARTED"
    /\ ixPc' = ixPc + 1
    /\ UNCHANGED <<ixFn, RXCTRL, FCTRL, TXDCTL, TDH, TDT, rxctrl, fctrl, txdctl,
                   promiscuous, all_multicast, ixLog>>

\* return 0
ixgbe_return ==
    /\ IxStep = "return"
    /\ ixPc' = Len(IxgbeProgram(ixFn)) + 1
    /\ UNCHANGED <<ixFn, RXCTRL, FCTRL, TXDCTL, TDH, TDT, rxctrl, fctrl, txdctl,
                   promiscuous, all_multicast, tx_queue_state, ixLog>>

IdleArgs ==
    /\ driver = "flags"
    /\ argv = <<>>
    /\ argPc = "idle"
    /\ eal_argv = <<>>
    /\ benchIdx = {}
    /\ g_burst_size = DefaultBurstSize
    /\ g_iterations = DefaultIterations
    /\ g_payload_size = DefaultPayloadSize
    /\ g_params = <<>>

IdleIR ==
    /\ irTemplate = "arithmetic"
    /\ irArg = NoArg
    /\ irPc = "idle"
    /\ irN = 0
    /\ iv = 0
    /\ execCount = 0
    /\ sunk = FALSE
    /\ irOut = <<>>

InitSpecIR == InitIR /\ IdleArgs /\ IdleProc /\ IdleAux

NextIR ==
    \/ ir_main /\ UNCHANGED <<argVars, procVars, auxVars>>
    \/ bench_loop_iteration /\ UNCHANGED <<argVars, procVars, auxVars>>
    \/ bench_loop_passes /\ UNCHANGED <<argVars, procVars, auxVars>>
    \/ bench_loop_exit /\ UNCHANGED <<argVars, procVars, auxVars>>

SpecIR == InitSpecIR /\ [][NextIR]_vars

InitSpecArgs == InitArgs /\ IdleIR /\ IdleProc /\ IdleAux

NextArgs ==
    \/ parse_flags /\ UNCHANGED <<irVars, procVars, auxVars>>
    \/ parse_params /\ UNCHANGED <<irVars, procVars, auxVars>>

SpecArgs == InitSpecArgs /\ [][NextArgs]_vars

\* a generated benchmark process started on a command line, and its device
InitSpecIxgbe == InitIxgbe /\ IdleIR /\ IdleArgs /\ IdleProc /\ IdleWait /\ IdleSetup

NextIxgbe ==
    \/ ixgbe_check_promiscuous /\ UNCHANGED <<irVars, argVars, procVars, waitVars, setupVars>>
    \/ ixgbe_clear_rxen /\ UNCHANGED <<irVars, argVars, procVars, waitVars, setupVars>>
    \/ ixgbe_modify_fctrl /\ UNCHANGED <<irVars, argVars, procVars, waitVars, setupVars>>
    \/ ixgbe_write_fctrl /\ UNCHANGED <<irVars, argVars, procVars, waitVars, setupVars>>
    \/ ixgbe_set_rxen /\ UNCHANGED <<irVars, argVars, procVars, waitVars, setupVars>>
    \/ ixgbe_write_tdh /\ UNCHANGED <<irVars, argVars, procVars, waitVars, setupVars>>
    \/ ixgbe_write_tdt /\ UNCHANGED <<irVars, argVars, procVars, waitVars, setupVars>>
    \/ ixgbe_wmb /\ UNCHANGED <<irVars, argVars, procVars, waitVars, setupVars>>
    \/ ixgbe_enable_txq /\ UNCHANGED <<irVars, argVars, procVars, waitVars, setupVars>>
    \/ ixgbe_poll_txdctl /\ UNCHANGED <<irVars, argVars, procVars, waitVars, setupVars>>
    \/ ixgbe_set_started /\ UNCHANGED <<irVars, argVars, procVars, waitVars, setupVars>>
    \/ ixgbe_return /\ UNCHANGED <<irVars, argVars, procVars, waitVars, setupVars>>

SpecIxgbe == InitSpecIxgbe /\ [][NextIxgbe]_vars

InitSpecSetup == InitSetup /\ IdleIR /\ IdleProc /\ IdleIxgbe /\ IdleWait

NextSetup ==
    \/ parse_params /\ UNCHANGED <<irVars, procVars, auxVars>>
    \/ setup_params /\ UNCHANGED <<irVars, argVars, ixVars, waitVars>>
    \/ setup_alloc /\ UNCHANGED <<irVars, argVars, ixVars, waitVars>>
    \/ setup_pool /\ UNCHANGED <<irVars, argVars, ixVars, waitVars>>
    \/ setup_fill /\ UNCHANGED <<irVars, argVars, ixVars, waitVars>>

SpecSetup == InitSpecSetup /\ [][NextSetup]_vars

InitSpecWait == InitWait /\ IdleIR /\ IdleArgs /\ IdleIxgbe /\ IdleSetup

NextWait ==
    \/ drain_enqueue /\ UNCHANGED <<irVars, argVars, ixVars, setupVars>>
    \/ drain_test /\ UNCHANGED <<irVars, argVars, ixVars, setupVars>>
    \/ drain_dequeue /\ UNCHANGED <<irVars, argVars, ixVars, setupVars>>
    \/ wait_enqueue /\ UNCHANGED <<irVars, argVars, ixVars, setupVars>>
    \/ wait_test /\ UNCHANGED <<irVars, argVars, ixVars, setupVars>>
    \/ wait_dequeue /\ UNCHANGED <<irVars, argVars, ixVars, setupVars>>
    \/ wait_cleanup_test /\ UNCHANGED <<irVars, argVars, ixVars, setupVars>>
    \/ wait_cleanup_dequeue /\ UNCHANGED <<irVars, argVars, ixVars, setupVars>>
    \/ device_complete /\ UNCHANGED <<irVars, argVars, auxVars>>

\* the thread keeps executing, and the device keeps completing what it holds
FairWait ==
    /\ WF_vars(NextWait /\ pc' # pc)
    /\ WF_vars(device_complete /\ UNCHANGED <<irVars, argVars, auxVars>>)

SpecWait == InitSpecWait /\ [][NextWait]_vars /\ FairWait

Init ==
    /\ InitProc
    /\ IdleIR
    /\ IdleAux
    /\ driver = DriverOf(bench)
    /\ argv \in ProcArgVectors(bench)
    /\ argPc = "parse"
    /\ eal_argv = <<>>
    /\ benchIdx = {}
    /\ g_burst_size = DefaultBurstSize
    /\ g_iterations = DefaultIterations
    /\ g_payload_size = DefaultPayloadSize
    /\ g_params = <<>>

Next ==
    \/ init_dpdk /\ UNCHANGED <<irVars, auxVars>>
    \/ setup_device /\ UNCHANGED <<irVars, argVars, auxVars>>
    \/ setup_benchmark /\ UNCHANGED <<irVars, argVars, auxVars>>
    \/ run_benchmark_start /\ UNCHANGED <<irVars, argVars, auxVars>>
    \/ loop_head /\ UNCHANGED <<irVars, argVars, auxVars>>
    \/ enqueue_burst /\ UNCHANGED <<irVars, argVars, auxVars>>
    \/ dequeue_burst_once /\ UNCHANGED <<irVars, argVars, auxVars>>
    \/ poll_dequeue /\ UNCHANGED <<irVars, argVars, auxVars>>
    \/ poll_validate /\ UNCHANGED <<irVars, argVars, auxVars>>
    \/ create_free_call /\ UNCHANGED <<irVars, argVars, auxVars>>
    \/ rx_burst_call /\ UNCHANGED <<irVars, argVars, auxVars>>
    \/ alloc_bulk_call /\ UNCHANGED <<irVars, argVars, auxVars>>
    \/ loop_tail /\ UNCHANGED <<irVars, argVars, auxVars>>
    \/ run_benchmark_end /\ UNCHANGED <<irVars, argVars, auxVars>>
    \/ cleanup_inflight /\ UNCHANGED <<irVars, argVars, auxVars>>
    \/ teardown_benchmark /\ UNCHANGED <<irVars, argVars, auxVars>>
    \/ main_return /\ UNCHANGED <<irVars, argVars, auxVars>>
    \/ device_complete /\ UNCHANGED <<irVars, argVars, auxVars>>

Spec == Init /\ [][Next]_vars

-----------------------------------------------------------------------------
(* Properties *)

ResultLines   == {i \in DOMAIN out : out[i].line \in {"Total cycles", "Cycles per call"}}
MetadataLines == {i \in DOMAIN out : out[i].line = "metadata"}
MismatchMessages == {"ERROR: Enqueued but dequeued operations",
                     "ERROR: operations still in-flight at teardown"}
\* what rte_eal_init was handed, beside the program name
RuntimeArgs ==
    IF eal_argv # <<>> /\ Head(eal_argv) = ProgName THEN Tail(eal_argv) ELSE eal_argv
BurstSizeMissing == get_benchmark_param(g_params, BurstSizeKey) = NULL

\* C1: in every asynchronous enqueue/dequeue benchmark, a run whose number of
\* dequeued operations differs from the number enqueued ends in a fatal rte_exit
\* that reports the mismatch; it never ends with status 0
C1_MismatchIsFatal ==
    (UsesQueue(bench) /\ pc = "exited" /\ sumDequeued # sumEnqueued)
        => (status = "failure" /\ errmsg \in MismatchMessages)

C3_SuccessfulAttemptNotPolled ==
    (Polls(bench) /\ pc = "loop_tail")
        => total_poll_cycles = zeroCycles + pauseCycles

\* C4: for every argument vector holding "--", the arguments before the first "--"
\* are the only ones read as benchmark parameters and exactly those after it, in
\* order, are handed to rte_eal_init
C4_SeparatorConvention ==
    (argPc \in {"parsed", "eal_failed"} /\ separator_index(argv) > 0)
        => /\ RuntimeArgs = SubSeq(argv, separator_index(argv) + 2, Len(argv))
           /\ benchIdx \subseteq 1..(separator_index(argv) - 1)

\* C5: a benchmark whose burst_size parameter was not supplied does not crash, uses
\* the default and, when it ends normally, has printed the default in its metadata
C5_MissingParamDefault ==
    (DriverOf(bench) = "params" /\ (UsesQueue(bench) \/ bench = "alloc_bulk")
       /\ pc \notin {"init_dpdk", "setup_device", "setup_benchmark", "idle"}
       /\ BurstSizeMissing)
        => /\ status # "crash"
           /\ status = "exit0" =>
                 \E m \in MetadataLines : out[m].value = DefaultBurstSize

\* C6: with no device of the targeted class present, the process exits non-zero
\* before any measurement and never creates a fallback device
C6_AbsentDeviceFailsFast ==
    (devCount = 0)
        => /\ ~vdev_initialized
           /\ pc \notin {"idle", "init_dpdk", "setup_device"}
                 => (status = "failure" /\ errmsg # "" /\ printed = <<>>)

\* C7: a successful run has printed exactly one result line, and at most one
\* metadata line, which comes after the result line
C7_ResultLineThenMetadata ==
    (status = "exit0")
        => /\ Cardinality(ResultLines) = 1
           /\ Cardinality(MetadataLines) <= 1
           /\ \A m \in MetadataLines : \A r \in ResultLines : r < m

\* C8: the encrypt enqueue/dequeue benchmark run with burst_size 32 submits exactly
\* 32 operations in every iteration, and at teardown every submitted operation has
\* been dequeued: none is still held by the device
C8_EncryptBurst32 ==
    (bench = "crypto_encrypt" /\ burst_size = 32)
        => /\ pc = "dequeue" => lastEnqueued = 32
           /\ pc \in {"teardown_device", "exited"} /\ status # "failure"
                 => (sumDequeued = sumEnqueued /\ devInflight + devDone = 0)

\* C9: once a device, pool, session or transform creation has failed, the process
\* ends with a non-zero status and an error message, never with status 0
C9_CreationFailureIsFatal ==
    (creationFailed /\ pc = "exited")
        => (status = "failure" /\ errmsg # "")

\* C10: for every IR template and every N >= 1, N being the command-line argument
\* or 100,000,000 without one, bench_loop(N) has executed the snippet exactly N
\* times when it has called sink and returned
C10_ExactlyNExecutions ==
    (irPc = "returned" /\ MainN(irArg) >= 1)
        => (sunk /\ irN = MainN(irArg) /\ execCount = irN)

IrResultLines   == {i \in DOMAIN irOut : irOut[i].line = "Total cycles"}
IrMetadataLines == {i \in DOMAIN irOut : irOut[i].line = "metadata"}
AddImmDefaultRun == irTemplate = "arithmetic" /\ irArg = NoArg

\* C11 as stated: the arithmetic add-imm executable run with no argument uses
\* 100,000,000 iterations and has written exactly one "Total cycles: N" line with
\* N > 0, and no metadata line, when it returns
C11_OneTotalCyclesLine ==
    (AddImmDefaultRun /\ irPc = "returned")
        => /\ irN = DefaultN
           /\ Cardinality(IrResultLines) = 1
           /\ \A r \in IrResultLines : irOut[r].value > 0
           /\ IrMetadataLines = {}

\* C11 amended: the arithmetic add-imm executable run with no argument calls
\* bench_loop with 100,000,000 and writes nothing to standard output: neither a
\* "Total cycles" line nor a metadata line
C11_DefaultRunPrintsNothing ==
    (AddImmDefaultRun /\ irPc \in {"loop", "exit", "returned"})
        => (irN = DefaultN /\ irOut = <<>>)

C11_Witness ==
    AddImmDefaultRun /\ irPc = "returned" /\ sunk /\ execCount >= DefaultN

\* the parameter strings that name each transform setting
AlgorithmOf(algo) ==
    CASE algo = "RTE_COMP_ALGO_DEFLATE" -> Deflate
      [] algo = "RTE_COMP_ALGO_LZ4" -> Lz4
      [] algo = "RTE_COMP_ALGO_NULL" -> NullAlgo
      [] OTHER -> NULL
ChecksumOf(chksum) ==
    CASE chksum = "RTE_COMP_CHECKSUM_CRC32" -> Crc32
      [] chksum = "RTE_COMP_CHECKSUM_ADLER32" -> Adler32
      [] chksum = "RTE_COMP_CHECKSUM_XXHASH32" -> XxHash32
      [] OTHER -> NoneSum

\* C12: every value printed in the compress benchmark's metadata line is the value
\* the run used: the burst size, and the algorithm and checksum configured in the
\* transform given to the device
C12_MetadataIsWhatWasUsed ==
    (bench = "compress_poll")
        => \A m \in MetadataLines :
              /\ out[m].value = burst_size
              /\ out[m].algorithm = AlgorithmOf(comp_xform.algo)
              /\ out[m].checksum = ChecksumOf(comp_xform.chksum)

FctrlFunctions == IxgbeFunctions \ {"ixgbe_dev_tx_queue_start"}
FctrlWrites == {i \in DOMAIN ixLog : ixLog[i].reg = "FCTRL"}

\* C14: in each of the four patched FCTRL functions every write to FCTRL happens
\* while RXCTRL.RXEN is 0: RXEN is cleared before the write and set again only
\* after it
C14_FctrlWrittenWithRxenOff ==
    (ixFn \in FctrlFunctions)
        => /\ \A i \in FctrlWrites : ~ixLog[i].rxen
           /\ (IxStep = "done" /\ FctrlWrites # {}) => "RXEN" \in RXCTRL

EnableWrites == {i \in DOMAIN ixLog : ixLog[i].reg = "TXDCTL" /\ "ENABLE" \in ixLog[i].val}

\* C15: in the patched ixgbe_dev_tx_queue_start, TDH and TDT are both written to 0
\* and a write barrier follows, before TXDCTL.ENABLE is set; neither TDH nor TDT is
\* written once the queue is enabled
C15_HeadTailBeforeEnable ==
    (ixFn = "ixgbe_dev_tx_queue_start")
        => /\ \A k \in EnableWrites :
                 \E h, t, w \in 1..(k - 1) :
                    /\ ixLog[h].reg = "TDH" /\ ixLog[h].val = 0
                    /\ ixLog[t].reg = "TDT" /\ ixLog[t].val = 0
                    /\ ixLog[w].reg = "wmb" /\ h < w /\ t < w
           /\ \A i \in DOMAIN ixLog : ixLog[i].reg \in {"TDH", "TDT"} => ~ixLog[i].txen
           /\ tx_queue_state = "STARTED" => (EnableWrites # {} /\ TDH = 0 /\ TDT = 0)

C15_Witness ==
    /\ ixFn = "ixgbe_dev_tx_queue_start"
    /\ IxStep = "done"
    /\ "ENABLE" \in TXDCTL
    /\ tx_queue_state = "STARTED"

\* an operation the device accepted is neither delivered nor still held by it
OperationLost == sumEnqueued # sumDequeued + devInflight + devDone

\* C16: as long as the device still completes every operation it accepted (none is
\* lost: each is delivered or still held, to be returned by a later dequeue call),
\* the benchmark does not raise the enqueue/dequeue mismatch error; the error is
\* raised only for a persistent mismatch
C16_ErrorOnlyForPersistentMismatch ==
    (errmsg \in MismatchMessages) => OperationLost

\* every waiting loop has been left
WaitingLoopsTerminate == <>(pc = "wait_done")

\* a loop is waiting for operations although the device holds none: nothing it can
\* dequeue will ever arrive, so it never exits
WaitsForNothing ==
    /\ devInflight + devDone = 0
    /\ \/ pc \in {"drain_test", "drain_dequeue"} /\ completed < burst_size
       \/ pc \in {"poll_test", "poll_dequeue"} /\ total_dequeued < enqueued
       \/ pc \in {"cleanup_test", "cleanup_dequeue"} /\ in_flight_ops > 0

\* C17: when the device completes every operation it accepted, each waiting loop
\* (the drain loop of the decrypt setup, the polling loop of an iteration, the
\* in-flight cleanup loop) terminates, also when the device accepted fewer than
\* burst_size operations: no loop is left waiting once the device has handed back
\* everything it accepted
C17_NoLoopWaitsForNothing == ~WaitsForNothing

\* C18: for every burst_size the setup accepts, the indices i < burst_size used on
\* ops, mbufs, dst_mbufs, ivs and bufs stay below the capacity of these arrays
C18_IndexWithinCapacity ==
    (setupKind \in SetupKinds) => (topIndex < ArrayCapacity(setupKind, burst_size))

\* C19: for every size parameter that passes validation, the bytes written into
\* an mbuf lie within the data room its pool was created with
C19_WritesWithinDataRoom ==
    (setupPc \in {"done", "crashed"}) => (bytesWritten <= data_room_size)

\* C20: in every run of a polling template, when the result is computed
\* total_poll_cycles is at most end - start, so end - start - total_poll_cycles
\* does not wrap around
C20_PollCyclesWithinRun ==
    (Template(bench) = "compressdev" /\ printed # <<>>)
        => /\ printed[1].poll <= U64Sub(printed[1].endv, printed[1].startv)
           /\ printed[1].value = printed[1].endv - printed[1].startv - printed[1].poll

\* a polling run that printed its result after attempts that returned nothing,
\* an attempt that returned completions and a timed pause
C20_Witness ==
    /\ bench = "compress_poll"
    /\ printed # <<>>
    /\ zeroCycles > 0
    /\ succCycles > 0
    /\ pauseCycles > 0
    /\ printed[1].poll = zeroCycles + succCycles + pauseCycles

\* s is an optionally signed, non-empty run of decimal digits
IsNumber(s) ==
    LET body == IF Len(s) > 0 /\ s[1] \in {"+", "-"} THEN SubSeq(s, 2, Len(s)) ELSE s
    IN  Len(body) > 0 /\ \A j \in 1 .. Len(body) : body[j] \in Digits

\* the integer such a string denotes
DecimalValue(s) ==
    IF s[1] = "-" THEN 0 - DigitsFrom(s, 2, 0)
    ELSE IF s[1] = "+" THEN DigitsFrom(s, 2, 0)
    ELSE DigitsFrom(s, 1, 0)

\* the flag f is the first argument, is followed by a value before the separator,
\* and occurs nowhere else
OnlyFlag(f) ==
    /\ driver = "flags"
    /\ Argc(argv) >= 3
    /\ Arg(argv, 1) = f
    /\ separator_index(argv) # 2
    /\ \A i \in 2 .. Argc(argv) - 1 : Arg(argv, i) # f

\* the value given with that flag is zero, non-numeric or below lo or above hi
BadValue(lo, hi) ==
    ~IsNumber(Arg(argv, 2))
        \/ DecimalValue(Arg(argv, 2)) < lo \/ DecimalValue(Arg(argv, 2)) > hi

\* C21: after parse_command_line_args, for every argument vector,
\* 1 <= g_burst_size <= 65535, g_iterations >= 1 and g_payload_size >= 8, and a
\* -b, -i or -p value that is zero, non-numeric or out of range leaves the default
\* (32, 1000000, 64)
C21_FlagValuesValidated ==
    (argPc \in {"parsed", "eal_failed"})
        => /\ g_burst_size >= 1 /\ g_burst_size <= MaxBurstSize
           /\ g_iterations >= 1
           /\ g_payload_size >= MinPayloadSize
           /\ (OnlyFlag(<<"-", "b">>) /\ BadValue(1, MaxBurstSize))
                 => g_burst_size = DefaultBurstSize
           /\ (OnlyFlag(<<"-", "i">>) /\ BadValue(1, ULongModulus - 1))
                 => g_iterations = DefaultIterations
           /\ (OnlyFlag(<<"-", "p">>) /\ BadValue(MinPayloadSize, UIntModulus - 1))
                 => g_payload_size = DefaultPayloadSize

\* the --key value pairs of the benchmark-argument section, as written on the
\* command line from argument i on (-i takes the argument after it)
RECURSIVE SuppliedPairs(_, _)
SuppliedPairs(av, i) ==
    IF i >= Argc(av) THEN <<>>
    ELSE IF StrNEq(Arg(av, i), Separator, 2) /\ i + 1 < Argc(av)
         THEN <<[key |-> SubSeq(Arg(av, i), 3, Len(Arg(av, i))), value |-> Arg(av, i + 1)]>>
                  \o SuppliedPairs(av, i + 2)
    ELSE IF StrEq(Arg(av, i), <<"-", "i">>) /\ i + 1 < Argc(av)
         THEN SuppliedPairs(av, i + 2)
    ELSE SuppliedPairs(av, i + 1)

\* keys looked up that may not have been supplied
ProbeKeys == {<<"k">>, <<"j">>, BurstSizeKey}

\* C22: for any command line, get_benchmark_param(key) returns the value of the
\* first --key value pair with that key in the benchmark-argument section, and
\* NULL only for keys that were not supplied
C22_SuppliedParamsRetrievable ==
    (driver = "params" /\ argPc \in {"parsed", "eal_failed"})
        => LET sep == separator_index(argv)
               sp  == SuppliedPairs(argv, IF sep >= 0 THEN sep + 1 ELSE Argc(argv))
               keys == {sp[j].key : j \in DOMAIN sp}
           IN  /\ \A k \in keys :
                     get_benchmark_param(g_params, k) = ParamLookup(sp, k, 1)
               /\ \A k \in ProbeKeys \ keys : get_benchmark_param(g_params, k) = NULL

\* C23: for every N that main passes, 0 and negative values included, bench_loop(N)
\* is over after at most max(N, 1) + 1 passes through its loop block
C23_AtMostNPlusOnePasses ==
    (irPc # "main") => (execCount <= (IF irN > 1 THEN irN ELSE 1) + 1)

=============================================================================
